---- MODULE Spec2Model ----
(***************************************************************************)
(* The file-descriptor manager of libtransmission (fdlimit.c): a fixed     *)
(* array of cached file slots with least-recently-used recycling, the      *)
(* open / resize / preallocate logic behind a checkout, the lazily built,   *)
(* explicitly torn down per-session structure that owns the array, and the *)
(* count of peer sockets that the same structure keeps under peerLimit.    *)
(* Building the structure also renegotiates the process's limit on open    *)
(* files (RLIMIT_NOFILE) against FD_SETSIZE.                               *)
(*                                                                         *)
(* The operating system is part of the state: sys.open is the set of file  *)
(* descriptors that are open at the OS level and sys.write those among     *)
(* them that were opened with TR_SYS_FILE_WRITE.  Every OS call a handler  *)
(* makes is appended, with its outcome, to the call log of the record      *)
(* `last`, which describes the most recent operation.                      *)
(***************************************************************************)
EXTENDS Integers, Sequences, FiniteSets, TLC

(* ---- bounds of the model ---- *)
\* number of slots of the fileset (the code constructs 32, fdlimit.c:314)
FILE_CACHE_SIZE == 2
\* torrent ids are 0..MaxTorrent; torrent t has the files 0..MaxTorrent-t
MaxTorrent == 1
\* tr_time() takes the values 1..MaxTime
MaxTime == 2
\* file sizes, on disk and requested, are 0..MaxSize
MaxSize == 1
\* session->peerLimit is one of 0..MaxPeerLimit
MaxPeerLimit == 3
\* at most MaxSockets sockets are open in the OS at a time
MaxSockets == 4
\* rlim_t is an unsigned integer of RlimBits bits, int a signed one of IntBits
RlimBits == 4
IntBits == 3
\* the lengths given to a preallocation reach MaxBlocks buffers and more
MaxBlocks == 2

(* ---- program constants ---- *)
TR_BAD_SYS_FILE == -1
BufSize == 4096

TorrentIds == 0..MaxTorrent
FileIndices(torrent_id) == 0..(MaxTorrent - torrent_id)
Sizes == 0..MaxSize
Allocations == {"TR_PREALLOCATE_NONE", "TR_PREALLOCATE_SPARSE", "TR_PREALLOCATE_FULL"}
\* how the preallocation step of a checkout ends: the native call works, or it
\* fails and the fallback works, or the fallback fails at its 1st, 2nd or 3rd
\* call, or (full) the file cannot be opened at all
PreOutcomes == {"native", "fallback", "fail1", "fail2", "fail3", "nofd"}
\* a write of the zero-fill loop can also come back short: the 1st, 2nd or 3rd
ShortOutcomes == {"short1", "short2", "short3"}

VARIABLES
  fdInfo,    \* session->fdInfo != NULL
  fileset,   \* session->fdInfo->fileset: the slots, << >> while fdInfo is NULL
  sys,       \* OS descriptor table: [open: set of fds, write: those opened for writing]
  now,       \* the value tr_time() returns
  order,     \* slots in the order of their last touch, least recent first
  last,      \* the most recent operation: arguments, result, OS calls made
  peerCount, \* session->fdInfo->peerCount, 0 while fdInfo is NULL
  peerLimit, \* session->peerLimit
  sockets,   \* the sockets that are open in the OS
  held,      \* the socket handles returned to the caller and not yet passed
             \* to tr_fdSocketClose
  rlimit,    \* RLIMIT_NOFILE of the process: [rlim_cur, rlim_max]
  platform,  \* FD_SETSIZE and whether getrlimit and setrlimit succeed
  limit_before \* rlim_cur as it was when the structure was last built

sockvars == <<peerCount, peerLimit, sockets, held>>
limvars == <<rlimit, platform, limit_before>>
vars == <<fdInfo, fileset, sys, now, order, last, peerCount, peerLimit, sockets, held,
          rlimit, platform, limit_before>>

(* ---- the operating system ---- *)
\* done: the bytes a write has written when it returns
Call(by, call, fd, write, len, ok) ==
  [by |-> by, call |-> call, fd |-> fd, write |-> write, len |-> len, ok |-> ok,
   done |-> IF call = "write" /\ ok THEN len ELSE 0]

Min(S) == CHOOSE x \in S : \A y \in S : x <= y

\* open(2) returns the lowest descriptor that is not in use
LowestFree(S) == Min({n \in 0..Cardinality(S) : n \notin S})

tr_sys_file_open(s, write, ok) ==
  IF ok
    THEN LET fd == LowestFree(s.open)
         IN [fd |-> fd,
             sys |-> [open |-> s.open \cup {fd},
                      write |-> IF write THEN s.write \cup {fd} ELSE s.write]]
    ELSE [fd |-> TR_BAD_SYS_FILE, sys |-> s]

tr_sys_file_close(s, fd) ==
  [open |-> s.open \ {fd}, write |-> s.write \ {fd}]

Max(S) == CHOOSE x \in S : \A y \in S : x >= y

\* the size of a file of size `size` after the calls made on it, the first of
\* them at offset `offset`: a write extends the file to where it ends, a
\* truncate sets the size, a preallocation extends the file to its length
RECURSIVE file_size_after(_, _, _)
file_size_after(size, offset, calls) ==
  IF calls = << >> THEN size
  ELSE LET c == Head(calls)
           rest == Tail(calls)
       IN CASE c.call = "seek" /\ c.ok -> file_size_after(size, c.len, rest)
            [] c.call = "write" ->
                 file_size_after(Max({size, offset + c.done}), offset + c.done, rest)
            [] c.call = "truncate" /\ c.ok -> file_size_after(c.len, offset, rest)
            [] c.call = "preallocate" /\ c.ok ->
                 file_size_after(Max({size, c.len}), offset, rest)
            [] OTHER -> file_size_after(size, offset, rest)


(* ---- preallocation (fdlimit.c:40-93) ---- *)
\* which call of a fallback fails, 0 for none
FailAt(pre) ==
  CASE pre = "fail1" -> 1
    [] pre = "fail2" -> 2
    [] pre = "fail3" -> 3
    [] OTHER -> 0

\* which write of the zero-fill loop comes back short, 0 for none
ShortAt(pre) ==
  CASE pre = "short1" -> 1
    [] pre = "short2" -> 2
    [] pre = "short3" -> 3
    [] OTHER -> 0

\* a fallback that seeks to length and skips the truncate
preallocate_file_sparse_past_end(fd, length, pre) ==
  LET P(call, len, ok) == Call("preallocate_file_sparse", call, fd, FALSE, len, ok)
      seek_ok == FailAt(pre) # 1
      write_ok == FailAt(pre) # 2
  IN IF length = 0
       THEN [success |-> TRUE, calls |-> << >>]
       ELSE IF pre = "native"
         THEN [success |-> TRUE, calls |-> <<P("preallocate", length, TRUE)>>]
         ELSE [success |-> seek_ok /\ write_ok,
               calls |-> <<P("preallocate", length, FALSE), P("seek", length, seek_ok)>>
                         \o (IF seek_ok THEN <<P("write", 1, write_ok)>> ELSE << >>)]

\* the write is of one byte and its count of bytes written is not read
\* (fdlimit.c:58): a write that succeeds can have written nothing
preallocate_file_sparse(fd, length, pre) ==
  LET P(call, len, ok) == Call("preallocate_file_sparse", call, fd, FALSE, len, ok)
      seek_ok == FailAt(pre) # 1
      write_ok == FailAt(pre) # 2
      trunc_ok == FailAt(pre) # 3
      write == IF ShortAt(pre) = 1 THEN [P("write", 1, write_ok) EXCEPT !.done = 0]
               ELSE P("write", 1, write_ok)
  IN IF length = 0
       THEN [success |-> TRUE, calls |-> << >>]
       ELSE IF pre = "native"
         THEN [success |-> TRUE, calls |-> <<P("preallocate", length, TRUE)>>]
         ELSE [success |-> seek_ok /\ write_ok /\ trunc_ok,
               calls |-> <<P("preallocate", length, FALSE), P("seek", length - 1, seek_ok)>>
                         \o (IF seek_ok THEN <<write>> ELSE << >>)
                         \o (IF seek_ok /\ write_ok
                               THEN <<P("truncate", length, trunc_ok)>> ELSE << >>)]

\* a loop that does not read the count of bytes written
write_complete_unread(w, thisPass) == w.ok

\* fdlimit.c:84: the write has succeeded and written all it was given
write_complete(w, thisPass) == w.ok /\ w.done = thisPass

\* the loop of fdlimit.c:80-86; pass counts the writes, pre names the write
\* that fails, or that succeeds and comes back one byte short
RECURSIVE zero_fill(_, _, _, _)
zero_fill(fd, length, pass, pre) ==
  IF length = 0
    THEN [success |-> TRUE, calls |-> << >>]
    ELSE LET thisPass == IF length < BufSize THEN length ELSE BufSize
             full == Call("preallocate_file_full", "write", fd, FALSE, thisPass,
                          pass # FailAt(pre))
             w == IF pass = ShortAt(pre) THEN [full EXCEPT !.done = thisPass - 1] ELSE full
         IN IF write_complete(w, thisPass)
              THEN LET r == zero_fill(fd, length - thisPass, pass + 1, pre)
                   IN [success |-> r.success, calls |-> <<w>> \o r.calls]
              ELSE [success |-> FALSE, calls |-> <<w>>]

\* opens its own descriptor on the file and closes it again: the descriptor
\* table is the same before and after
preallocate_file_full(s, length, pre) ==
  LET opened == tr_sys_file_open(s, TRUE, pre # "nofd")
      fd == opened.fd
      P(call, w, len, ok) == Call("preallocate_file_full", call, fd, w, len, ok)
      fill == zero_fill(fd, length, 1, pre)
  IN IF fd = TR_BAD_SYS_FILE
       THEN [success |-> FALSE, calls |-> <<P("open", TRUE, 0, FALSE)>>]
       ELSE IF pre = "native"
         THEN [success |-> TRUE,
               calls |-> <<P("open", TRUE, 0, TRUE), P("preallocate", FALSE, length, TRUE),
                           P("close", FALSE, 0, TRUE)>>]
         ELSE [success |-> fill.success,
               calls |-> <<P("open", TRUE, 0, TRUE), P("preallocate", FALSE, length, FALSE)>>
                         \o fill.calls \o <<P("close", FALSE, 0, TRUE)>>]

(* ---- struct tr_cached_file (fdlimit.c:101-200) ---- *)
TR_CACHED_FILE_INIT ==
  [is_writable |-> FALSE, fd |-> TR_BAD_SYS_FILE, torrent_id |-> 0, file_index |-> 0,
   used_at |-> 0]

cached_file_is_open(o) == o.fd # TR_BAD_SYS_FILE

\* a close that forgets the descriptor without closing it
cached_file_close_leak(o, s, by) ==
  [o |-> [o EXCEPT !.fd = TR_BAD_SYS_FILE],
   sys |-> s,
   calls |-> << >>]

\* by names the caller, for the call log
cached_file_close(o, s, by) ==
  [o |-> [o EXCEPT !.fd = TR_BAD_SYS_FILE],
   sys |-> tr_sys_file_close(s, o.fd),
   calls |-> <<Call(by, "close", o.fd, FALSE, 0, TRUE)>>]

\* a resize whenever the file is not smaller than wanted
resize_needed_le(already_existed, file_size, info_size) ==
  already_existed /\ file_size <= info_size

\* fdlimit.c:166
resize_needed(already_existed, file_size, info_size) ==
  already_existed /\ file_size < info_size

\* fdlimit.c:167-171: whether the flags of the open hold TR_SYS_FILE_WRITE
open_for_write(writable, resize) == writable \/ resize

\* an open that fails when the sparse preallocation does
errno_after_sparse_propagated(sparse) == IF sparse.success THEN "none" ELSE "preallocate"

\* fdlimit.c:196-199: the result of the sparse preallocation is dropped
errno_after_sparse(sparse) == "none"

\* env is what the file system answers during the call:
\*   mkdir_ok, existed (a regular file is at the path), info_size (its size),
\*   open_ok, trunc_ok, pre (how a preallocation ends)
\* The result is the slot as the call leaves it, the descriptor table, the
\* errno returned ("none" for 0), the OS calls made and the size of the file.
cached_file_open(o, s, writable, allocation, file_size, env) ==
  LET C(call, fd, w, len, ok) == Call("cached_file_open", call, fd, w, len, ok)
      mkdir == IF writable THEN <<C("mkdir", TR_BAD_SYS_FILE, FALSE, 0, env.mkdir_ok)>>
               ELSE << >>
      already_existed == env.existed
      size0 == IF already_existed THEN env.info_size ELSE 0
      full == IF writable /\ ~already_existed /\ allocation = "TR_PREALLOCATE_FULL"
                THEN preallocate_file_full(s, file_size, env.pre)
                ELSE [success |-> FALSE, calls |-> << >>]
      size1 == file_size_after(size0, 0, full.calls)
      resize == resize_needed(already_existed, file_size, env.info_size)
      w == open_for_write(writable, resize)
      opened == tr_sys_file_open(s, w, env.open_ok)
      o1 == [o EXCEPT !.fd = opened.fd]
      open == <<C("open", opened.fd, w, 0, env.open_ok)>>
      trunc == IF resize THEN <<C("truncate", opened.fd, FALSE, file_size, env.trunc_ok)>>
               ELSE << >>
      size2 == IF resize /\ env.trunc_ok THEN file_size ELSE size1
      sparse_ran == w /\ ~already_existed /\ allocation = "TR_PREALLOCATE_SPARSE"
      sparse == IF sparse_ran
                  THEN preallocate_file_sparse(opened.fd, file_size, env.pre)
                  ELSE [success |-> TRUE, calls |-> << >>]
      size3 == file_size_after(size2, 0, sparse.calls)
  IN IF writable /\ ~env.mkdir_ok
       THEN [o |-> o, sys |-> s, err |-> "mkdir", calls |-> mkdir, size |-> 0,
             existed |-> FALSE, info_size |-> 0, write |-> FALSE]
       ELSE IF opened.fd = TR_BAD_SYS_FILE
         THEN [o |-> o1, sys |-> opened.sys, err |-> "open",
               calls |-> mkdir \o full.calls \o open, size |-> size1,
               existed |-> already_existed, info_size |-> size0, write |-> w]
         ELSE IF resize /\ ~env.trunc_ok
           THEN [o |-> o1, sys |-> opened.sys, err |-> "truncate",
                 calls |-> mkdir \o full.calls \o open \o trunc, size |-> size1,
                 existed |-> already_existed, info_size |-> size0, write |-> w]
           ELSE [o |-> o1, sys |-> opened.sys, err |-> errno_after_sparse(sparse),
                 calls |-> mkdir \o full.calls \o open \o trunc \o sparse.calls,
                 size |-> size3, existed |-> already_existed, info_size |-> size0, write |-> w]

(* ---- struct tr_fileset (fdlimit.c:206-291) ---- *)
fileset_construct(n) == [k \in 1..n |-> TR_CACHED_FILE_INIT]

\* closes, in index order, the open slots among those of index >= k that are in S
RECURSIVE close_slots(_, _, _, _, _)
close_slots(set, s, S, k, by) ==
  IF k > Len(set)
    THEN [set |-> set, sys |-> s, calls |-> << >>]
    ELSE IF k \in S /\ cached_file_is_open(set[k])
      THEN LET c == cached_file_close(set[k], s, by)
               r == close_slots([set EXCEPT ![k] = c.o], c.sys, S, k + 1, by)
           IN [set |-> r.set, sys |-> r.sys, calls |-> c.calls \o r.calls]
      ELSE close_slots(set, s, S, k + 1, by)

\* a close_all that passes over the first slot
fileset_close_all_but_first(set, s) ==
  close_slots(set, s, DOMAIN set \ {1}, 1, "fileset_close_all")

fileset_close_all(set, s) == close_slots(set, s, DOMAIN set, 1, "fileset_close_all")

\* a close_torrent that does not look at the owner
fileset_close_torrent_any(set, s, torrent_id) ==
  close_slots(set, s, DOMAIN set, 1, "fileset_close_torrent")

fileset_close_torrent(set, s, torrent_id) ==
  close_slots(set, s, {k \in DOMAIN set : set[k].torrent_id = torrent_id}, 1,
              "fileset_close_torrent")

\* a lookup that does not ask whether the slot is open
fileset_lookup_any(set, torrent_id, i) ==
  LET M == {k \in DOMAIN set : /\ torrent_id = set[k].torrent_id
                               /\ i = set[k].file_index}
  IN IF M = {} THEN 0 ELSE Min(M)

\* the index of the first open slot with this identity, 0 for NULL
fileset_lookup(set, torrent_id, i) ==
  LET M == {k \in DOMAIN set : /\ torrent_id = set[k].torrent_id
                               /\ i = set[k].file_index
                               /\ cached_file_is_open(set[k])}
  IN IF M = {} THEN 0 ELSE Min(M)

\* a scan that keeps the most recently used slot
cull_replaced_mru(set, k, cull) == cull = 0 \/ set[k].used_at > set[cull].used_at

\* a scan that keeps the last of the slots with the least used_at
cull_replaced_last(set, k, cull) == cull = 0 \/ set[k].used_at <= set[cull].used_at

\* fdlimit.c:284: whether slot k replaces the candidate cull (0 for NULL)
cull_replaced(set, k, cull) == cull = 0 \/ set[k].used_at < set[cull].used_at

\* the scan of fdlimit.c:283-285
RECURSIVE cull_scan(_, _, _)
cull_scan(set, k, cull) ==
  IF k > Len(set) THEN cull
  ELSE cull_scan(set, k + 1, IF cull_replaced(set, k, cull) THEN k ELSE cull)

fileset_get_empty_slot(set, s) ==
  LET unused == {k \in DOMAIN set : ~cached_file_is_open(set[k])}
      cull == cull_scan(set, 1, 0)
      c == cached_file_close(set[cull], s, "fileset_get_empty_slot")
  IN IF unused # {}
       THEN [slot |-> Min(unused), set |-> set, sys |-> s, calls |-> << >>]
       ELSE [slot |-> cull, set |-> [set EXCEPT ![cull] = c.o], sys |-> c.sys,
             calls |-> c.calls]

(* ---- startup / shutdown (fdlimit.c:299-361) ---- *)
\* get_fileset: the fileset of the session, constructed on first use
get_fileset == IF fdInfo THEN fileset ELSE fileset_construct(FILE_CACHE_SIZE)

RECURSIVE Pow2(_)
Pow2(n) == IF n = 0 THEN 1 ELSE 2 * Pow2(n - 1)

\* the largest value of rlim_t
RLIM_INFINITY == Pow2(RlimBits) - 1

\* the conversion of an rlim_t to int
ToInt(x) ==
  LET m == x % Pow2(IntBits)
  IN IF m >= Pow2(IntBits - 1) THEN m - Pow2(IntBits) ELSE m

\* fdlimit.c:324
old_limit(lim) == ToInt(lim.rlim_cur)

\* fdlimit.c:325; it is at most fd_setsize and so the same as an int
new_limit(lim, fd_setsize) == ToInt(Min({lim.rlim_max, fd_setsize}))

\* a negotiation that only ever raises the limit
limit_changes_upward(new, old) == new > old

\* fdlimit.c:326
limit_changes(new, old) == new # old

\* fdlimit.c:322-333: RLIMIT_NOFILE after the negotiation; setrlimit is given
\* a rlim_cur that is not above rlim_max
negotiated(lim, pf) ==
  IF /\ pf.getrlimit_ok
     /\ limit_changes(new_limit(lim, pf.FD_SETSIZE), old_limit(lim))
     /\ pf.setrlimit_ok
    THEN [lim EXCEPT !.rlim_cur = new_limit(lim, pf.FD_SETSIZE)]
    ELSE lim

\* the structure is built, and the limit negotiated, when it does not exist
ensureSessionFdInfoExists ==
  /\ fdInfo' = TRUE
  /\ rlimit' = IF fdInfo THEN rlimit ELSE negotiated(rlimit, platform)
  /\ limit_before' = IF fdInfo THEN limit_before ELSE rlimit.rlim_cur
  /\ platform' = platform

(* ---- the record of the most recent operation ---- *)
Op(op, torrent_id, i, writable) ==
  [op |-> op, torrent_id |-> torrent_id, file_index |-> i, writable |-> writable,
   ret |-> TR_BAD_SYS_FILE, success |-> FALSE, err |-> "none", calls |-> << >>,
   slot |-> 0, opened |-> FALSE, existed |-> FALSE, info_size |-> 0, file_size |-> 0,
   size |-> 0, fd |-> TR_BAD_SYS_FILE]

\* slot k becomes the most recently touched
Touch(ord, k) == SelectSeq(ord, LAMBDA x : x # k) \o <<k>>

(* ---- the file API (fdlimit.c:363-448) ---- *)
\* a reopen whenever the cached mode is not the requested one
checkout_reopens_mismatch(set, found, writable) ==
  found # 0 /\ writable # set[found].is_writable

\* a checkout that never reopens a cached slot
checkout_reopens_never(set, found, writable) == FALSE

\* fdlimit.c:425: a cached slot is closed to be opened again in rw mode
checkout_reopens(set, found, writable) ==
  found # 0 /\ writable /\ ~set[found].is_writable

\* whether the checkout has to open the file: the identity is not cached, or
\* is cached read-only and wanted writable
checkout_opens(torrent_id, i, writable) ==
  LET found == fileset_lookup(get_fileset, torrent_id, i)
  IN found = 0 \/ checkout_reopens(get_fileset, found, writable)

\* fdlimit.c:422-428: the slot of the checkout, closed if it has to be opened
checkout_slot(set, s, torrent_id, i, writable) ==
  LET found == fileset_lookup(set, torrent_id, i)
      c == cached_file_close(set[found], s, "tr_fdFileCheckout")
  IN IF checkout_reopens(set, found, writable)
       THEN [slot |-> found, set |-> [set EXCEPT ![found] = c.o],
             sys |-> c.sys, calls |-> c.calls]
       ELSE IF found = 0
         THEN fileset_get_empty_slot(set, s)
         ELSE [slot |-> found, set |-> set, sys |-> s, calls |-> << >>]

\* an open that leaves the slot's is_writable as it was
recorded_writable_stale(writable, opn) == opn.o.is_writable

\* fdlimit.c:440
recorded_writable(writable, opn) == writable

tr_fdFileCheckout(torrent_id, i, writable, allocation, file_size, env) ==
  \E acq \in {checkout_slot(get_fileset, sys, torrent_id, i, writable)} :
  \E o \in {acq.slot} :
  \E must_open \in {~cached_file_is_open(acq.set[o])} :
  \E opn \in {IF must_open
                THEN cached_file_open(acq.set[o], acq.sys, writable, allocation,
                                      file_size, env)
                ELSE [o |-> acq.set[o], sys |-> acq.sys, err |-> "none",
                      calls |-> << >>, size |-> 0, existed |-> FALSE, info_size |-> 0,
                      write |-> FALSE]} :
    LET o2 == IF must_open
                THEN [opn.o EXCEPT !.is_writable = recorded_writable(writable, opn)]
                ELSE opn.o
        o3 == [o2 EXCEPT !.torrent_id = torrent_id, !.file_index = i, !.used_at = now]
        base == [Op("checkout", torrent_id, i, writable) EXCEPT
                   !.slot = o, !.opened = must_open, !.calls = acq.calls \o opn.calls]
        \* what the call found on disk, was asked for and left there, for
        \* the calls that opened the file
        seen == IF must_open /\ opn.err \in {"none", "truncate"}
                  THEN [base EXCEPT !.existed = opn.existed, !.info_size = opn.info_size,
                                    !.file_size = file_size, !.size = opn.size]
                  ELSE base
    IN /\ ensureSessionFdInfoExists
       /\ now' = now
       /\ UNCHANGED sockvars
       /\ sys' = opn.sys
       /\ IF opn.err # "none"
            THEN /\ fileset' = [acq.set EXCEPT ![o] = opn.o]
                 /\ order' = order
                 /\ last' = [seen EXCEPT !.err = opn.err]
            ELSE /\ fileset' = [acq.set EXCEPT ![o] = o3]
                 /\ order' = Touch(order, o)
                 /\ last' = [seen EXCEPT !.ret = o3.fd, !.success = TRUE]

\* fdlimit.c:384
cached_refused(set, o, writable) == o = 0 \/ (writable /\ ~set[o].is_writable)

tr_fdFileGetCached(torrent_id, i, writable) ==
  \E set \in {get_fileset} :
  \E o \in {fileset_lookup(set, torrent_id, i)} :
    LET base == Op("peek_cached", torrent_id, i, writable)
    IN /\ ensureSessionFdInfoExists
       /\ UNCHANGED <<sys, now>>
       /\ UNCHANGED sockvars
       /\ IF cached_refused(set, o, writable)
            THEN /\ fileset' = set
                 /\ order' = order
                 /\ last' = base
            ELSE /\ fileset' = [set EXCEPT ![o].used_at = now]
                 /\ order' = Touch(order, o)
                 /\ last' = [base EXCEPT !.ret = set[o].fd, !.success = TRUE, !.slot = o]

\* a peek_mtime that refreshes the used_at of the slot it reads
tr_fdFileGetCachedMTime_touching(torrent_id, i, info_ok) ==
  \E set \in {get_fileset} :
  \E o \in {fileset_lookup(set, torrent_id, i)} :
    LET base == Op("peek_mtime", torrent_id, i, FALSE)
    IN /\ ensureSessionFdInfoExists
       /\ fileset' = IF o = 0 THEN set ELSE [set EXCEPT ![o].used_at = now]
       /\ UNCHANGED <<sys, now, order>>
       /\ UNCHANGED sockvars
       /\ last' = IF o = 0 THEN base
                  ELSE [base EXCEPT !.slot = o, !.success = info_ok,
                          !.calls = <<Call("tr_fdFileGetCachedMTime", "get_info",
                                           set[o].fd, FALSE, 0, info_ok)>>]

\* info_ok: whether tr_sys_file_get_info succeeds on the cached descriptor
tr_fdFileGetCachedMTime(torrent_id, i, info_ok) ==
  \E set \in {get_fileset} :
  \E o \in {fileset_lookup(set, torrent_id, i)} :
    LET base == Op("peek_mtime", torrent_id, i, FALSE)
    IN /\ ensureSessionFdInfoExists
       /\ fileset' = set
       /\ UNCHANGED <<sys, now, order>>
       /\ UNCHANGED sockvars
       /\ last' = IF o = 0 THEN base
                  ELSE [base EXCEPT !.slot = o, !.success = info_ok,
                          !.calls = <<Call("tr_fdFileGetCachedMTime", "get_info",
                                           set[o].fd, FALSE, 0, info_ok)>>]

\* a close_member that flushes the descriptor after it has closed it
tr_fdFileClose_flush_late(torrent_id, i) ==
  \E set \in {get_fileset} :
  \E o \in {fileset_lookup(set, torrent_id, i)} :
    LET base == Op("close_member", torrent_id, i, FALSE)
        flush == IF set[o].is_writable
                   THEN <<Call("tr_fdFileClose", "flush", set[o].fd, FALSE, 0, TRUE)>>
                   ELSE << >>
        c == cached_file_close(set[o], sys, "tr_fdFileClose")
    IN /\ ensureSessionFdInfoExists
       /\ UNCHANGED <<now, order>>
       /\ UNCHANGED sockvars
       /\ IF o = 0
            THEN /\ fileset' = set
                 /\ sys' = sys
                 /\ last' = base
            ELSE /\ fileset' = [set EXCEPT ![o] = c.o]
                 /\ sys' = c.sys
                 /\ last' = [base EXCEPT !.slot = o, !.calls = c.calls \o flush]

tr_fdFileClose(torrent_id, i) ==
  \E set \in {get_fileset} :
  \E o \in {fileset_lookup(set, torrent_id, i)} :
    LET base == Op("close_member", torrent_id, i, FALSE)
        flush == IF set[o].is_writable
                   THEN <<Call("tr_fdFileClose", "flush", set[o].fd, FALSE, 0, TRUE)>>
                   ELSE << >>
        c == cached_file_close(set[o], sys, "tr_fdFileClose")
    IN /\ ensureSessionFdInfoExists
       /\ UNCHANGED <<now, order>>
       /\ UNCHANGED sockvars
       /\ IF o = 0
            THEN /\ fileset' = set
                 /\ sys' = sys
                 /\ last' = base
            ELSE /\ fileset' = [set EXCEPT ![o] = c.o]
                 /\ sys' = c.sys
                 /\ last' = [base EXCEPT !.slot = o, !.calls = flush \o c.calls]

tr_fdTorrentClose(torrent_id) ==
  \E r \in {fileset_close_torrent(get_fileset, sys, torrent_id)} :
     /\ ensureSessionFdInfoExists
     /\ fileset' = r.set
     /\ sys' = r.sys
     /\ UNCHANGED <<now, order>>
     /\ UNCHANGED sockvars
     /\ last' = [Op("close_owner", torrent_id, 0, FALSE) EXCEPT !.calls = r.calls]

\* fileset_destruct closes every open slot and frees the array; peerCount
\* goes with the structure, the sockets stay as they are
tr_fdClose ==
  \E r \in {fileset_close_all(fileset, sys)} :
     /\ fdInfo' = FALSE
     /\ fileset' = << >>
     /\ peerCount' = 0
     /\ UNCHANGED <<peerLimit, sockets, held>>
     /\ UNCHANGED limvars
     /\ sys' = IF fdInfo THEN r.sys ELSE sys
     /\ order' = << >>
     /\ now' = now
     /\ last' = [Op("shutdown", 0, 0, FALSE) EXCEPT
                   !.calls = IF fdInfo THEN r.calls ELSE << >>]

\* tr_time() is a clock that never goes back
Tick ==
  /\ now < MaxTime
  /\ now' = now + 1
  /\ last' = Op("tick", 0, 0, FALSE)
  /\ UNCHANGED <<fdInfo, fileset, sys, order>>
  /\ UNCHANGED sockvars
  /\ UNCHANGED limvars

(* ---- sockets (fdlimit.c:456-546) ---- *)
\* the peerCount of the session; tr_new0 zeroes the structure built on first use
get_peerCount == IF fdInfo THEN peerCount ELSE 0

\* socket(2) and accept(2) return the lowest descriptor that is not in use
new_socket == LowestFree(sys.open \cup sockets)

SockOp(op, fd) == [Op(op, 0, 0, FALSE) EXCEPT !.fd = fd]

\* a budget that admits one socket more than the limit
socket_admitted_upto(count, limit) == count <= limit

\* fdlimit.c:466
socket_admitted(count, limit) == count < limit

\* a count that grows with every call
count_after_socket_always(count, s) == count + 1

\* fdlimit.c:471-472
count_after_socket(count, s) == IF s > -1 THEN count + 1 ELSE count

\* an accept that keeps a socket whatever the budget
accept_kept_over_budget(count, limit, addr_ok) == addr_ok

\* an accept that keeps a socket whose peer address it could not parse
accept_kept_any_address(count, limit, addr_ok) == count < limit

\* fdlimit.c:514-515; addr_ok: tr_address_from_sockaddr_storage succeeds
accept_kept(count, limit, addr_ok) == count < limit /\ addr_ok

\* socket_ok: whether socket(2) succeeds
tr_fdSocketCreate(socket_ok) ==
  \E count \in {get_peerCount} :
  \E admitted \in {socket_admitted(count, peerLimit)} :
  \E s \in {IF admitted /\ socket_ok THEN new_socket ELSE -1} :
     /\ ensureSessionFdInfoExists
     /\ fileset' = get_fileset
     /\ peerCount' = count_after_socket(count, s)
     /\ sockets' = IF s > -1 THEN sockets \cup {s} ELSE sockets
     /\ held' = IF s > -1 THEN held \cup {s} ELSE held
     /\ last' = [SockOp("create_socket", -1) EXCEPT
                   !.ret = s, !.success = s > -1,
                   !.calls = IF admitted
                               THEN <<Call("tr_fdSocketCreate", "socket", s, FALSE, 0,
                                           socket_ok)>>
                               ELSE << >>]
     /\ UNCHANGED <<sys, now, order, peerLimit>>

\* accept_ok: whether accept(2) succeeds; the address of the peer is parsed
\* only for a socket within the budget (the && of fdlimit.c:514-515)
tr_fdSocketAccept(accept_ok, addr_ok) ==
  \E count \in {get_peerCount} :
  \E fd \in {IF accept_ok THEN new_socket ELSE -1} :
  \E kept \in {fd >= 0 /\ accept_kept(count, peerLimit, addr_ok)} :
     /\ ensureSessionFdInfoExists
     /\ fileset' = get_fileset
     /\ peerCount' = IF kept THEN count + 1 ELSE count
     /\ sockets' = IF kept THEN sockets \cup {fd} ELSE sockets
     /\ held' = IF kept THEN held \cup {fd} ELSE held
     /\ last' = [SockOp("accept_socket", -1) EXCEPT
                   !.ret = IF kept THEN fd ELSE -1, !.success = kept,
                   !.calls = <<Call("tr_fdSocketAccept", "accept", fd, FALSE, 0, accept_ok)>>
                             \o (IF fd >= 0 /\ count < peerLimit
                                   THEN <<Call("tr_fdSocketAccept", "address", fd, FALSE, 0,
                                               addr_ok)>>
                                   ELSE << >>)
                             \o IF fd >= 0 /\ ~kept
                                  THEN <<Call("tr_fdSocketAccept", "close", fd, FALSE, 0,
                                              TRUE)>>
                                  ELSE << >>]
     /\ UNCHANGED <<sys, now, order, peerLimit>>

\* does nothing at all while session->fdInfo is NULL
tr_fdSocketClose(fd) ==
  \E closes \in {fdInfo /\ fd >= 0} :
     /\ peerCount' = IF closes THEN peerCount - 1 ELSE peerCount
     /\ sockets' = IF closes THEN sockets \ {fd} ELSE sockets
     /\ held' = held \ {fd}
     /\ last' = [SockOp("close_socket", fd) EXCEPT
                   !.calls = IF closes
                               THEN <<Call("tr_fdSocketClose", "close", fd, FALSE, 0, TRUE)>>
                               ELSE << >>]
     /\ UNCHANGED <<fdInfo, fileset, sys, now, order, peerLimit>>
     /\ UNCHANGED limvars

(* ---- what a checkout that opens is given ---- *)
NoEnv ==
  [mkdir_ok |-> TRUE, existed |-> FALSE, info_size |-> 0, open_ok |-> TRUE,
   trunc_ok |-> TRUE, pre |-> "native"]

Scenario(allocation, file_size, env) ==
  [allocation |-> allocation, file_size |-> file_size, env |-> env]

\* the outcomes of the preallocation that allocation and file_size tell apart
PreOutcomesOf(writable, allocation, file_size) ==
  IF ~writable \/ allocation = "TR_PREALLOCATE_NONE" THEN {"native"}
  ELSE IF allocation = "TR_PREALLOCATE_SPARSE"
    THEN IF file_size = 0 THEN {"native"}
         ELSE {"native", "fallback", "fail1", "fail2", "fail3"}
    ELSE IF file_size = 0 THEN {"native", "fallback", "nofd"}
         ELSE {"native", "fallback", "fail1", "nofd"}

\* every choice of allocation mode, requested size (among sizes) and
\* file-system answers that cached_file_open can tell from another
ScenariosOf(writable, allocations, sizes) ==
  {Scenario("TR_PREALLOCATE_NONE", 0, [NoEnv EXCEPT !.mkdir_ok = FALSE]) :
     x \in {y \in {writable} : y}}
  \cup {Scenario("TR_PREALLOCATE_NONE", fs,
                 [NoEnv EXCEPT !.existed = TRUE, !.info_size = sz, !.open_ok = ok]) :
          fs \in sizes, sz \in Sizes, ok \in BOOLEAN}
  \cup {Scenario("TR_PREALLOCATE_NONE", c[1],
                 [NoEnv EXCEPT !.existed = TRUE, !.info_size = c[2], !.trunc_ok = FALSE]) :
          c \in {d \in sizes \X Sizes : d[1] < d[2]}}
  \cup UNION {UNION {{Scenario(a, fs, [NoEnv EXCEPT !.open_ok = ok, !.pre = p]) :
                        ok \in BOOLEAN, p \in PreOutcomesOf(writable, a, fs)} :
                     fs \in sizes} : a \in allocations}

OpenScenariosRW == ScenariosOf(TRUE, Allocations, Sizes)
OpenScenariosRO == ScenariosOf(FALSE, Allocations, Sizes)

\* the scenarios that differ in what they do to the cache: no preallocation,
\* requested size 0, so that a file on disk is too large iff it is not empty
CacheScenariosRW == ScenariosOf(TRUE, {"TR_PREALLOCATE_NONE"}, {0})
CacheScenariosRO == ScenariosOf(FALSE, {"TR_PREALLOCATE_NONE"}, {0})

\* the same on a file system that never refuses a truncate
TruncOkScenariosRW == {sc \in CacheScenariosRW : sc.env.trunc_ok}
TruncOkScenariosRO == {sc \in CacheScenariosRO : sc.env.trunc_ok}

Ids == {id \in TorrentIds \X (0..MaxTorrent) : id[2] \in FileIndices(id[1])}
\* the files of torrent 0
OwnIds == {id \in Ids : id[1] = 0}

\* a checkout of one of ids, given one of the scenarios rw when writable and
\* one of ro when not
CheckoutOf(ids, rw, ro) ==
  \E id \in ids, writable \in BOOLEAN :
    IF checkout_opens(id[1], id[2], writable)
      THEN \E sc \in (IF writable THEN rw ELSE ro) :
             tr_fdFileCheckout(id[1], id[2], writable, sc.allocation, sc.file_size, sc.env)
      ELSE tr_fdFileCheckout(id[1], id[2], writable, "TR_PREALLOCATE_NONE", 0, NoEnv)

Checkout == CheckoutOf(Ids, CacheScenariosRW, CacheScenariosRO)

PeekCached ==
  \E id \in Ids, writable \in BOOLEAN : tr_fdFileGetCached(id[1], id[2], writable)

PeekMTime ==
  \E id \in Ids :
    \E info_ok \in IF fileset_lookup(get_fileset, id[1], id[2]) = 0 THEN {FALSE} ELSE BOOLEAN :
      tr_fdFileGetCachedMTime(id[1], id[2], info_ok)

CloseMember == \E id \in Ids : tr_fdFileClose(id[1], id[2])

CloseOwner == \E torrent_id \in TorrentIds : tr_fdTorrentClose(torrent_id)

Shutdown == tr_fdClose

\* the process starts with its limit on open files at FD_SETSIZE already
Init ==
  /\ fdInfo = FALSE
  /\ fileset = << >>
  /\ sys = [open |-> {}, write |-> {}]
  /\ now = 1
  /\ order = << >>
  /\ last = Op("init", 0, 0, FALSE)
  /\ peerCount = 0
  /\ peerLimit = MaxPeerLimit
  /\ sockets = {}
  /\ held = {}
  /\ rlimit = [rlim_cur |-> 1, rlim_max |-> 1]
  /\ platform = [FD_SETSIZE |-> 1, getrlimit_ok |-> TRUE, setrlimit_ok |-> TRUE]
  /\ limit_before = 1

Next ==
  \/ Checkout
  \/ PeekCached
  \/ PeekMTime
  \/ CloseMember
  \/ CloseOwner
  \/ Shutdown
  \/ Tick

\* the file cache under every sequence of API calls and clock ticks
Spec == Init /\ [][Next]_vars

\* the open path: checkouts of the files of one torrent with every scenario
\* of OpenScenariosRW and OpenScenariosRO, at one clock value
CheckoutOpen == CheckoutOf(OwnIds, OpenScenariosRW, OpenScenariosRO)

CloseOpen == \E id \in OwnIds : tr_fdFileClose(id[1], id[2])

NextOpen ==
  \/ CheckoutOpen
  \/ CloseOpen

SpecOpen == Init /\ [][NextOpen]_vars

\* the file cache on a file system that never refuses a truncate
CheckoutTruncOk == CheckoutOf(Ids, TruncOkScenariosRW, TruncOkScenariosRO)

NextTruncOk ==
  \/ CheckoutTruncOk
  \/ PeekCached
  \/ PeekMTime
  \/ CloseMember
  \/ CloseOwner
  \/ Shutdown
  \/ Tick

SpecTruncOk == Init /\ [][NextTruncOk]_vars

(* ---- the socket side of the session ---- *)
PeerLimits == 0..MaxPeerLimit

\* a socket is created or accepted while the OS has room for one
SocketCreate ==
  /\ Cardinality(sockets) < MaxSockets
  /\ \E socket_ok \in BOOLEAN : tr_fdSocketCreate(socket_ok)

SocketAccept ==
  /\ Cardinality(sockets) < MaxSockets
  /\ \E accept_ok \in BOOLEAN, addr_ok \in BOOLEAN : tr_fdSocketAccept(accept_ok, addr_ok)

\* the caller closes a handle it holds, or passes an invalid one
SocketClose == \E fd \in held \cup {-1} : tr_fdSocketClose(fd)

InitSock ==
  /\ fdInfo = FALSE
  /\ fileset = << >>
  /\ sys = [open |-> {}, write |-> {}]
  /\ now = 1
  /\ order = << >>
  /\ last = Op("init", 0, 0, FALSE)
  /\ peerCount = 0
  /\ peerLimit \in PeerLimits
  /\ sockets = {}
  /\ held = {}
  /\ rlimit = [rlim_cur |-> 1, rlim_max |-> 1]
  /\ platform = [FD_SETSIZE |-> 1, getrlimit_ok |-> TRUE, setrlimit_ok |-> TRUE]
  /\ limit_before = 1

NextSock ==
  \/ SocketCreate
  \/ SocketAccept
  \/ SocketClose
  \/ Shutdown

\* the socket API and shutdown under a peer limit that does not change
SpecSock == InitSock /\ [][NextSock]_vars

NextSockLife ==
  \/ SocketCreate
  \/ SocketAccept
  \/ SocketClose

\* one life of the session structure: from its construction, no shutdown
SpecSockLife == InitSock /\ [][NextSockLife]_vars

(* ---- the preallocations on their own ---- *)
Lengths == {b * BufSize + d : b \in 0..MaxBlocks, d \in {0, 1, BufSize - 1}}

\* the size of the file before the call: empty, shorter or longer than asked
SizesBefore == {0, 1, (MaxBlocks + 2) * BufSize}

\* preallocate_file_sparse on the open descriptor fd of a file of size `size`
PreallocateSparse(fd, length, size, pre) ==
  \E r \in {preallocate_file_sparse(fd, length, pre)} :
     /\ last' = [Op("preallocate_file_sparse", 0, 0, TRUE) EXCEPT
                   !.fd = fd, !.success = r.success, !.calls = r.calls,
                   !.file_size = length, !.info_size = size,
                   !.size = file_size_after(size, 0, r.calls)]
     /\ UNCHANGED <<fdInfo, fileset, sys, now, order>>
     /\ UNCHANGED sockvars
     /\ UNCHANGED limvars

\* preallocate_file_full on the path of a file that does not exist
PreallocateFull(length, pre) ==
  \E r \in {preallocate_file_full(sys, length, pre)} :
     /\ last' = [Op("preallocate_file_full", 0, 0, TRUE) EXCEPT
                   !.success = r.success, !.calls = r.calls, !.file_size = length,
                   !.size = file_size_after(0, 0, r.calls)]
     /\ UNCHANGED <<fdInfo, fileset, sys, now, order>>
     /\ UNCHANGED sockvars
     /\ UNCHANGED limvars

Sparse ==
  \E length \in Lengths, size \in SizesBefore, pre \in PreOutcomes \cup ShortOutcomes :
    PreallocateSparse(0, length, size, pre)

Full == \E length \in Lengths, pre \in PreOutcomes \cup ShortOutcomes : PreallocateFull(length, pre)

NextPrealloc ==
  \/ Sparse
  \/ Full

\* the two preallocations applied to every length of Lengths under every
\* answer of the file system
SpecPrealloc == Init /\ [][NextPrealloc]_vars

(* ---- the limit on open files ---- *)
\* FD_SETSIZE is a positive int
FdSetSizes == 1..(Pow2(IntBits - 1) - 1)

\* RLIMIT_NOFILE as the OS keeps it: the soft limit is not above the hard one
Limits ==
  {lim \in [rlim_cur : 0..RLIM_INFINITY, rlim_max : 0..RLIM_INFINITY] :
     lim.rlim_cur <= lim.rlim_max}

InitLimit ==
  /\ fdInfo = FALSE
  /\ fileset = << >>
  /\ sys = [open |-> {}, write |-> {}]
  /\ now = 1
  /\ order = << >>
  /\ last = Op("init", 0, 0, FALSE)
  /\ peerCount = 0
  /\ peerLimit = MaxPeerLimit
  /\ sockets = {}
  /\ held = {}
  /\ rlimit \in Limits
  /\ platform \in [FD_SETSIZE : FdSetSizes, getrlimit_ok : BOOLEAN, setrlimit_ok : BOOLEAN]
  /\ limit_before = rlimit.rlim_cur

NextLimit ==
  \/ PeekCached
  \/ Shutdown

\* the structure built by a first call and torn down, again and again, under
\* every limit the process can start with
SpecLimit == InitLimit /\ [][NextLimit]_vars

(* ---- properties ---- *)
OpenSlots(set) == {k \in DOMAIN set : cached_file_is_open(set[k])}
FdsOf(set) == {set[k].fd : k \in OpenSlots(set)}
CallsOf(by, call) == {n \in DOMAIN last.calls : last.calls[n].by = by /\ last.calls[n].call = call}

\* C1: at most one open slot carries a given (torrent_id, file_index) pair
IdentityUnique ==
  \A a \in OpenSlots(fileset), b \in OpenSlots(fileset) :
    (fileset[a].torrent_id = fileset[b].torrent_id
       /\ fileset[a].file_index = fileset[b].file_index) => a = b

\* C2: the fileset keeps the FILE_CACHE_SIZE slots it was constructed with, and
\* neither the number of open slots nor the number of descriptors the cache
\* holds open at the OS level ever exceeds that capacity
CapacityInvariant ==
  /\ fdInfo => Len(fileset) = FILE_CACHE_SIZE
  /\ Cardinality(OpenSlots(fileset)) <= FILE_CACHE_SIZE
  /\ Cardinality(sys.open) <= FILE_CACHE_SIZE

\* all slots are open and a checkout of an identity that was not cached has
\* just closed one of them and succeeded
CapacityWitness ==
  /\ last.op = "checkout" /\ last.success
  /\ CallsOf("fileset_get_empty_slot", "close") # {}
  /\ Cardinality(OpenSlots(fileset)) = FILE_CACHE_SIZE

(* ---- steps of a checkout, as a relation between two states ---- *)
\* the step is a checkout of an identity that no open slot carried
MissStep ==
  /\ last'.op = "checkout"
  /\ fileset_lookup(get_fileset, last'.torrent_id, last'.file_index) = 0

\* the descriptors closed by the operation just made, other than the one
\* that full preallocation opens for itself
ClosedFds(l) ==
  {l.calls[n].fd : n \in {m \in DOMAIN l.calls : /\ l.calls[m].call = "close"
                                                  /\ l.calls[m].by # "preallocate_file_full"}}
NumCloses(l) ==
  Cardinality({m \in DOMAIN l.calls : /\ l.calls[m].call = "close"
                                      /\ l.calls[m].by # "preallocate_file_full"})

\* the slots that were touched least recently: those never touched since the
\* fileset was constructed, or else the head of the touch order
LeastRecentlyTouched(set) ==
  LET touched == {order[n] : n \in DOMAIN order}
  IN IF DOMAIN set \ touched # {} THEN DOMAIN set \ touched ELSE {Head(order)}

LeastUsedAt(set, v) == \A k \in DOMAIN set : set[v].used_at <= set[k].used_at

\* the step is a successful checkout of an uncached identity into a full cache
FullMissStep ==
  /\ MissStep
  /\ last'.success
  /\ fdInfo
  /\ OpenSlots(fileset) = DOMAIN fileset

\* C3 as claimed: a successful checkout of an uncached identity into a full
\* cache closes exactly one handle, the one touched least recently in
\* operation order, and leaves the other handles open with their descriptors
LRUInOperationOrder ==
  [][FullMissStep =>
       \E v \in DOMAIN fileset :
         /\ NumCloses(last') = 1
         /\ ClosedFds(last') = {fileset[v].fd}
         /\ last'.slot = v
         /\ v \in LeastRecentlyTouched(fileset)
         /\ \A k \in DOMAIN fileset \ {v} : fileset'[k].fd = fileset[k].fd]_vars

\* C3 amended: the handle closed is the one in the lowest slot among those of
\* least used_at; it is the least recently touched one whenever no other slot
\* has the same used_at; the other slots are left as they were
LRUByTimestamp ==
  [][FullMissStep =>
       \E v \in DOMAIN fileset :
         /\ NumCloses(last') = 1
         /\ ClosedFds(last') = {fileset[v].fd}
         /\ last'.slot = v
         /\ LeastUsedAt(fileset, v)
         /\ \A k \in 1..(v - 1) : fileset[v].used_at < fileset[k].used_at
         /\ (\A k \in DOMAIN fileset \ {v} : fileset[v].used_at < fileset[k].used_at)
              => v \in LeastRecentlyTouched(fileset)
         /\ \A k \in DOMAIN fileset \ {v} : fileset'[k] = fileset[k]]_vars

\* a checkout has just closed the least recently used handle of a full cache
\* whose other handle was used later, and succeeded
LRUWitness ==
  /\ last.op = "checkout" /\ last.success
  /\ CallsOf("fileset_get_empty_slot", "close") # {}
  /\ OpenSlots(fileset) = DOMAIN fileset
  /\ now = MaxTime
  /\ \E k \in DOMAIN fileset : fileset[k].used_at < now /\ fileset[k].used_at > 0
  /\ order # << >> /\ order[Len(order)] = last.slot

\* C4: a checkout of an uncached identity uses the lowest free slot and closes
\* nothing if a slot is free; otherwise it closes exactly the lowest slot among
\* those of least used_at, and uses it
SlotAcquisition ==
  [][MissStep =>
       LET set == get_fileset
           free == DOMAIN set \ OpenSlots(set)
           least == {k \in DOMAIN set : LeastUsedAt(set, k)}
       IN IF free # {}
            THEN /\ last'.slot = Min(free)
                 /\ NumCloses(last') = 0
                 /\ \A k \in OpenSlots(set) : fileset'[k] = set[k]
            ELSE /\ last'.slot = Min(least)
                 /\ NumCloses(last') = 1
                 /\ ClosedFds(last') = {set[Min(least)].fd}
                 /\ \A k \in DOMAIN set \ {Min(least)} : fileset'[k] = set[k]]_vars

\* a checkout found the cache full with both slots last used at the same
\* clock value, and closed the first of them
SlotAcquisitionWitness ==
  /\ last.op = "checkout"
  /\ last.slot = 1
  /\ CallsOf("fileset_get_empty_slot", "close") # {}
  /\ \A k \in DOMAIN fileset \ {1} :
       cached_file_is_open(fileset[k]) /\ fileset[k].used_at = now

\* the slot that carried the identity of the checkout just made, 0 for none
FoundBefore == fileset_lookup(get_fileset, last'.torrent_id, last'.file_index)

\* the step is a checkout of an identity cached in a slot that serves the request
HitStep ==
  /\ last'.op = "checkout"
  /\ FoundBefore # 0
  /\ ~last'.writable \/ fileset[FoundBefore].is_writable

\* the cache hit on the slot that fileset_lookup returns: a checkout of an
\* identity that this slot carries, read-only or with this slot writable,
\* returns the slot's descriptor, makes no OS call, closes no slot and leaves
\* every slot's descriptor and is_writable as they were
CacheHitNoReopen ==
  [][HitStep =>
       /\ last'.success
       /\ last'.ret = fileset[FoundBefore].fd
       /\ last'.slot = FoundBefore
       /\ last'.calls = << >>
       /\ sys' = sys
       /\ \A k \in DOMAIN fileset :
            /\ fileset'[k].fd = fileset[k].fd
            /\ fileset'[k].is_writable = fileset[k].is_writable]_vars

\* a read-only checkout has just been served from a writable slot
CacheHitWitness ==
  /\ last.op = "checkout" /\ last.success /\ ~last.opened
  /\ ~last.writable
  /\ fileset[last.slot].is_writable

\* the step is a successful writable checkout of an identity cached read-only
UpgradeStep ==
  /\ last'.op = "checkout"
  /\ last'.writable
  /\ last'.success
  /\ FoundBefore # 0
  /\ ~fileset[FoundBefore].is_writable

\* the places in the call log of l of the opens that cached_file_open made
SlotOpens(l) ==
  {n \in DOMAIN l.calls : l.calls[n].by = "cached_file_open" /\ l.calls[n].call = "open"}

\* the upgrade of the slot that fileset_lookup returns: a successful
\* writable checkout of an identity that this slot carries read-only closes
\* the old descriptor once, then opens the file once for the slot, for
\* writing, in the same slot, which ends recorded writable; no other slot
\* changes and as many slots are open as before
WritabilityUpgrade ==
  [][UpgradeStep =>
       LET found == FoundBefore
           closes == {n \in DOMAIN last'.calls : /\ last'.calls[n].call = "close"
                                                 /\ last'.calls[n].by = "tr_fdFileCheckout"}
       IN /\ last'.slot = found
          /\ NumCloses(last') = 1
          /\ Cardinality(closes) = 1
          /\ ClosedFds(last') = {fileset[found].fd}
          /\ Cardinality(SlotOpens(last')) = 1
          /\ \A n \in SlotOpens(last') :
               /\ last'.calls[n].write /\ last'.calls[n].ok
               /\ last'.calls[n].fd = fileset'[found].fd
               /\ \A m \in closes : m < n
          /\ fileset'[found].is_writable
          /\ fileset'[found].fd \in sys'.write
          /\ last'.ret = fileset'[found].fd
          /\ \A k \in DOMAIN fileset \ {found} : fileset'[k] = fileset[k]
          /\ Cardinality(OpenSlots(fileset')) = Cardinality(OpenSlots(fileset))]_vars

\* a read-only slot has just been reopened for writing while another slot
\* was open
UpgradeWitness ==
  /\ last.op = "checkout" /\ last.success /\ last.writable
  /\ CallsOf("tr_fdFileCheckout", "close") # {}
  /\ OpenSlots(fileset) = DOMAIN fileset

\* C7: a descriptor returned to a caller that asked for a writable one was
\* opened with write access, as is the descriptor of every slot recorded
\* writable
NeverNarrower ==
  /\ (last.op \in {"checkout", "peek_cached"} /\ last.writable /\ last.ret # TR_BAD_SYS_FILE)
       => last.ret \in sys.write
  /\ \A k \in OpenSlots(fileset) : fileset[k].is_writable => fileset[k].fd \in sys.write

\* a writable checkout has just reopened a slot that was cached read-only
NeverNarrowerWitness ==
  /\ last.op = "checkout" /\ last.writable /\ last.ret # TR_BAD_SYS_FILE
  /\ CallsOf("tr_fdFileCheckout", "close") # {}

TruncateCalls == {n \in DOMAIN last.calls : last.calls[n].call = "truncate"}

\* C8: a checkout that opens a regular file larger than the wanted size and
\* succeeds has opened it for writing and leaves it at the wanted size; a
\* file that is not larger is not truncated
ResizeSemantics ==
  (last.op = "checkout" /\ last.opened) =>
    /\ (last.success /\ last.existed /\ last.info_size > last.file_size) =>
         /\ \A n \in SlotOpens(last) : last.calls[n].write
         /\ last.ret \in sys.write
         /\ \E n \in TruncateCalls : last.calls[n].len = last.file_size /\ last.calls[n].ok
         /\ last.size = last.file_size
    /\ (last.err \in {"none", "truncate"} /\ last.existed
          /\ last.info_size <= last.file_size) =>
         /\ TruncateCalls = {}
         /\ last.size = last.info_size
    /\ last.err \in {"mkdir", "open"} => TruncateCalls = {}

\* a read-only checkout has just opened a file larger than wanted
ResizeWitness ==
  /\ last.op = "checkout" /\ last.opened /\ last.success
  /\ ~last.writable
  /\ last.existed /\ last.info_size > last.file_size

\* C9: a checkout that fails at the truncate returns failure with the
\* truncate's error, has closed the descriptor it opened and leaves the slot
\* free
TruncateFailureCleanup ==
  (last.op = "checkout" /\ last.err = "truncate") =>
    /\ last.ret = TR_BAD_SYS_FILE
    /\ ~cached_file_is_open(fileset[last.slot])
    /\ \A n \in SlotOpens(last) : last.calls[n].fd \notin sys.open

\* C10: a checkout that opens succeeds exactly when the mkdir (made when
\* writable), the open and the truncate (made when a resize is needed) of
\* cached_file_open succeed, whatever the preallocation did; the descriptor
\* returned is the one of that open and the slot holds the request
PreallocationNeverPropagates ==
  (last.op = "checkout" /\ last.opened) =>
    LET core == {n \in DOMAIN last.calls :
                   /\ last.calls[n].by = "cached_file_open"
                   /\ last.calls[n].call \in {"mkdir", "open", "truncate"}}
    IN /\ last.success <=> \A n \in core : last.calls[n].ok
       /\ (CallsOf("cached_file_open", "mkdir") # {}) <=> last.writable
       /\ last.success =>
            /\ (CallsOf("cached_file_open", "truncate") # {})
                 <=> (last.existed /\ last.info_size > last.file_size)
            /\ Cardinality(SlotOpens(last)) = 1
            /\ \A n \in SlotOpens(last) : last.ret = last.calls[n].fd
            /\ fileset[last.slot] =
                 [is_writable |-> last.writable, fd |-> last.ret,
                  torrent_id |-> last.torrent_id, file_index |-> last.file_index,
                  used_at |-> now]

\* a checkout has just succeeded although its preallocation failed
PreallocationWitness ==
  /\ last.op = "checkout" /\ last.success
  /\ \E n \in DOMAIN last.calls :
       /\ last.calls[n].by \in {"preallocate_file_sparse", "preallocate_file_full"}
       /\ last.calls[n].call \in {"open", "seek", "write", "truncate"}
       /\ ~last.calls[n].ok

(* ---- properties of the socket side ---- *)
\* C11: under a peer limit that does not change, whatever the OS answers to
\* socket, accept and close, the socket count never exceeds the limit
SocketBudget ==
  /\ get_peerCount <= peerLimit
  /\ fdInfo => peerCount <= peerLimit

\* a socket has just been refused for a budget that is used up
SocketBudgetWitness ==
  /\ last.op \in {"create_socket", "accept_socket"}
  /\ last.ret = -1
  /\ peerLimit > 0
  /\ fdInfo /\ peerCount = peerLimit

\* C12: a create_socket made while fewer than peerLimit handles are held
\* calls socket(2) once and, when that succeeds, hands out one more handle; a
\* create_socket made while peerLimit handles are held is refused without
\* any OS call and changes nothing; closing a held handle frees one place.
\* From no handle held and with socket(2) succeeding, peerLimit + 1 creates
\* are therefore peerLimit handles and one refusal, and each close admits
\* exactly one more create
AdmissionSequence ==
  [][/\ last'.op = "create_socket" =>
          LET n == Cardinality(held)
          IN /\ get_peerCount = n
             /\ IF n < peerLimit
                  THEN /\ Len(last'.calls) = 1
                       /\ last'.calls[1].call = "socket"
                       /\ last'.calls[1].ok =>
                            /\ last'.ret >= 0 /\ last'.ret \notin held
                            /\ held' = held \cup {last'.ret}
                            /\ sockets' = sockets \cup {last'.ret}
                            /\ peerCount' = n + 1
                       /\ ~last'.calls[1].ok =>
                            /\ last'.ret = -1
                            /\ held' = held /\ sockets' = sockets /\ peerCount' = n
                  ELSE /\ n = peerLimit
                       /\ last'.ret = -1
                       /\ last'.calls = << >>
                       /\ peerCount' = n
                       /\ sockets' = sockets
                       /\ held' = held
     /\ (last'.op = "close_socket" /\ last'.fd \in held) =>
          /\ held' = held \ {last'.fd}
          /\ sockets' = sockets \ {last'.fd}
          /\ peerCount' = Cardinality(held) - 1]_vars

\* a create has just been refused, without an OS call, with peerLimit
\* handles out
AdmissionWitness ==
  /\ last.op = "create_socket" /\ last.ret = -1 /\ last.calls = << >>
  /\ peerLimit >= 2
  /\ Cardinality(held) = peerLimit
  /\ peerCount = peerLimit

\* C13: with close_socket applied only to handles that create_socket or
\* accept_socket returned, once each, and with shutdowns in between, the
\* socket count is never negative (the assertions of fdlimit.c:474 and 544
\* hold)
NonNegativeCount == fdInfo => peerCount >= 0

\* C14: in one life of the session structure, with close_socket applied
\* only to handles held, the socket count is the number of handles that
\* create_socket and accept_socket returned and close_socket has not been
\* given yet; it grows, by one, exactly when a handle is returned
AccurateLiveCount ==
  [][/\ peerCount' = Cardinality(held')
     /\ peerCount' <= peerCount + 1
     /\ (peerCount' = peerCount + 1)
          <=> (last'.op \in {"create_socket", "accept_socket"} /\ last'.ret >= 0)
     /\ (last'.op \in {"create_socket", "accept_socket"} /\ last'.ret >= 0)
          => (last'.ret \notin held /\ held' = held \cup {last'.ret})]_vars

\* a held handle has just been closed while another one stays out
LiveCountWitness ==
  /\ last.op = "close_socket" /\ last.fd >= 0
  /\ peerCount = 1
  /\ Cardinality(held) = 1

\* C15: accept_socket always calls accept(2).  A socket accepted with the
\* budget used up, or whose peer address cannot be parsed, is closed before
\* the return, the call returns -1 and the socket count stays; a socket
\* accepted within the budget with a parsed address is returned and counted
\* once; a failed accept returns -1 and changes nothing.  No socket that the
\* call leaves open goes uncounted
AcceptAdmission ==
  [][last'.op = "accept_socket" =>
       LET calls == last'.calls
           c == get_peerCount
           parsed == {n \in DOMAIN calls : calls[n].call = "address" /\ calls[n].ok}
           closed == {n \in DOMAIN calls : calls[n].call = "close"}
       IN /\ Len(calls) >= 1 /\ calls[1].call = "accept"
          /\ IF ~calls[1].ok
               THEN /\ last'.ret = -1 /\ Len(calls) = 1
                    /\ peerCount' = c /\ sockets' = sockets /\ held' = held
               ELSE IF c >= peerLimit \/ parsed = {}
                 THEN /\ last'.ret = -1
                      /\ Cardinality(closed) = 1
                      /\ \A n \in closed : n = Len(calls) /\ calls[n].fd = calls[1].fd
                      /\ calls[1].fd \notin sockets'
                      /\ peerCount' = c /\ sockets' = sockets /\ held' = held
                 ELSE /\ last'.ret = calls[1].fd /\ last'.ret >= 0
                      /\ closed = {}
                      /\ peerCount' = c + 1
                      /\ sockets' = sockets \cup {last'.ret}
                      /\ held' = held \cup {last'.ret}
                      /\ last'.ret \notin sockets]_vars

\* an accepted socket has just been closed because its peer address could
\* not be parsed, with room left in the budget
AcceptWitness ==
  /\ last.op = "accept_socket" /\ last.ret = -1
  /\ peerCount < peerLimit
  /\ \E n \in DOMAIN last.calls : last.calls[n].call = "address" /\ ~last.calls[n].ok
  /\ \E n \in DOMAIN last.calls : last.calls[n].call = "close"

\* C16: in every state of the session, with the structure built or not,
\* close_socket of a valid handle closes the socket in the OS and takes one
\* off the socket count; close_socket of an invalid handle closes nothing
\* and leaves the count
CloseSocketEffect ==
  [][last'.op = "close_socket" =>
       IF last'.fd >= 0
         THEN /\ Len(last'.calls) = 1
              /\ last'.calls[1].call = "close" /\ last'.calls[1].fd = last'.fd
              /\ last'.fd \notin sockets'
              /\ peerCount' = peerCount - 1
         ELSE /\ last'.calls = << >>
              /\ sockets' = sockets
              /\ peerCount' = peerCount]_vars

(* ---- properties of shutdown, lookup and the closes ---- *)
\* the places in the call log of l of the closes of descriptor fd
ClosesOf(l, fd) == {n \in DOMAIN l.calls : l.calls[n].call = "close" /\ l.calls[n].fd = fd}

\* C17: tr_fdClose closes, once each, the descriptors that were open in the
\* fileset and nothing else; while the structure is gone peek_cached and
\* peek_mtime find no identity, and a checkout builds the fileset anew, all
\* slots free, and opens the file afresh: it succeeds exactly when the OS
\* calls of that open do, and leaves one slot open
ShutdownEffect ==
  [][/\ last'.op = "shutdown" =>
          /\ ~fdInfo' /\ fileset' = << >>
          /\ \A fd \in FdsOf(get_fileset) :
               Cardinality(ClosesOf(last', fd)) = 1 /\ fd \notin sys'.open
          /\ Len(last'.calls) = Cardinality(OpenSlots(get_fileset))
          /\ sys'.open = sys.open \ FdsOf(get_fileset)
     /\ (~fdInfo /\ last'.op = "peek_cached") => last'.ret = TR_BAD_SYS_FILE
     /\ (~fdInfo /\ last'.op = "peek_mtime") => (~last'.success /\ last'.calls = << >>)
     /\ (~fdInfo /\ last'.op = "checkout") =>
          /\ fdInfo' /\ Len(fileset') = FILE_CACHE_SIZE
          /\ last'.opened /\ last'.slot = 1
          /\ ClosedFds(last') = {}
          /\ \A k \in DOMAIN fileset' \ {1} : ~cached_file_is_open(fileset'[k])
          /\ last'.success <=> \A n \in DOMAIN last'.calls : last'.calls[n].ok
          /\ last'.success =>
               /\ Cardinality(SlotOpens(last')) = 1
               /\ \A n \in SlotOpens(last') : last'.ret = last'.calls[n].fd
               /\ cached_file_is_open(fileset'[1])
               /\ fileset'[1].fd = last'.ret
               /\ last'.ret \in sys'.open /\ last'.ret \notin sys.open]_vars

\* a shutdown has just closed a full fileset
ShutdownWitness ==
  /\ last.op = "shutdown"
  /\ Len(last.calls) = FILE_CACHE_SIZE
  /\ sys.open = {}

\* the open slots of set that carry (torrent_id, i) and serve a request of
\* this writability
Serving(set, torrent_id, i, writable) ==
  {k \in OpenSlots(set) : /\ set[k].torrent_id = torrent_id
                          /\ set[k].file_index = i
                          /\ ~writable \/ set[k].is_writable}

\* C18: peek_cached returns a descriptor exactly when an open slot carries
\* the identity and is recorded writable if that is required, and then the
\* descriptor of such a slot; it never opens or closes a descriptor nor
\* changes the descriptor, identity or is_writable of a slot
PeekCachedContract ==
  [][last'.op = "peek_cached" =>
       LET set == get_fileset
           M == Serving(set, last'.torrent_id, last'.file_index, last'.writable)
       IN /\ (last'.ret # TR_BAD_SYS_FILE) <=> (M # {})
          /\ last'.ret # TR_BAD_SYS_FILE => \E k \in M : last'.ret = set[k].fd
          /\ last'.calls = << >>
          /\ sys' = sys
          /\ \A k \in DOMAIN set :
               /\ fileset'[k].fd = set[k].fd
               /\ fileset'[k].torrent_id = set[k].torrent_id
               /\ fileset'[k].file_index = set[k].file_index
               /\ fileset'[k].is_writable = set[k].is_writable]_vars

\* C19: after close_member the identity is carried by no open slot, so that
\* a second close_member of it changes nothing; the slot it closes is left
\* free, and every slot that carries another identity keeps its descriptor,
\* is_writable and used_at
CloseMemberIdempotent ==
  [][last'.op = "close_member" =>
       LET set == get_fileset
           mine == {k \in DOMAIN set : /\ set[k].torrent_id = last'.torrent_id
                                       /\ set[k].file_index = last'.file_index}
       IN /\ fileset_lookup(fileset', last'.torrent_id, last'.file_index) = 0
          /\ \A k \in mine \cap OpenSlots(set) : set[k].fd \notin sys'.open
          /\ (mine \cap OpenSlots(set) = {}) => (fileset' = set /\ sys' = sys)
          /\ \A k \in DOMAIN set \ mine :
               /\ fileset'[k].fd = set[k].fd
               /\ fileset'[k].is_writable = set[k].is_writable
               /\ fileset'[k].used_at = set[k].used_at]_vars

\* C20: close_owner leaves no open slot with the torrent_id given, closes
\* the descriptor of each of that owner's open slots once, and leaves the
\* open slots of every other owner open and as they were
CloseOwnerEffect ==
  [][last'.op = "close_owner" =>
       LET set == get_fileset
           mine == {k \in OpenSlots(set) : set[k].torrent_id = last'.torrent_id}
       IN /\ \A k \in OpenSlots(fileset') : fileset'[k].torrent_id # last'.torrent_id
          /\ \A k \in mine :
               Cardinality(ClosesOf(last', set[k].fd)) = 1 /\ set[k].fd \notin sys'.open
          /\ Len(last'.calls) = Cardinality(mine)
          /\ sys'.open = sys.open \ {set[k].fd : k \in mine}
          /\ \A k \in OpenSlots(set) \ mine :
               fileset'[k] = set[k] /\ set[k].fd \in sys'.open]_vars

\* a close_owner has just closed a slot and left one of another owner open
CloseOwnerWitness ==
  /\ last.op = "close_owner"
  /\ Len(last.calls) >= 1
  /\ \E k \in OpenSlots(fileset) : fileset[k].torrent_id # last.torrent_id

(* ---- the cache hit and the upgrade over all slots of an identity ---- *)
\* C5: a checkout of an identity that some open slot carries, read-only or
\* with that slot recorded writable, returns the descriptor of such a slot,
\* makes no OS call, closes no slot and leaves every slot's descriptor and
\* is_writable as they were
CacheHitAnySlot ==
  [][(/\ last'.op = "checkout"
      /\ Serving(get_fileset, last'.torrent_id, last'.file_index, last'.writable) # {}) =>
       LET set == get_fileset
           M == Serving(set, last'.torrent_id, last'.file_index, last'.writable)
       IN /\ last'.success
          /\ \E k \in M : last'.ret = set[k].fd
          /\ last'.calls = << >>
          /\ sys' = sys
          /\ \A k \in DOMAIN set :
               /\ fileset'[k].fd = set[k].fd
               /\ fileset'[k].is_writable = set[k].is_writable]_vars

\* the open slots of set that carry (torrent_id, i) and are recorded read-only
CachedReadOnly(set, torrent_id, i) ==
  {k \in OpenSlots(set) : /\ set[k].torrent_id = torrent_id
                          /\ set[k].file_index = i
                          /\ ~set[k].is_writable}

\* C6: a successful writable checkout of an identity that some open slot
\* carries read-only closes that slot's descriptor, once, opens the file once
\* for writing in the same slot, and leaves the slot recorded writable, the
\* other slots as they were and as many slots open as before
UpgradeAnySlot ==
  [][(/\ last'.op = "checkout" /\ last'.writable /\ last'.success
      /\ CachedReadOnly(get_fileset, last'.torrent_id, last'.file_index) # {}) =>
       LET set == get_fileset
           ro == CachedReadOnly(set, last'.torrent_id, last'.file_index)
       IN /\ last'.slot \in ro
          /\ NumCloses(last') = 1
          /\ ClosedFds(last') = {set[last'.slot].fd}
          /\ Cardinality(SlotOpens(last')) = 1
          /\ \A n \in SlotOpens(last') : last'.calls[n].write
          /\ fileset'[last'.slot].is_writable
          /\ \A k \in DOMAIN set \ {last'.slot} : fileset'[k] = set[k]
          /\ Cardinality(OpenSlots(fileset')) = Cardinality(OpenSlots(set))]_vars

(* ---- free slots, used_at ---- *)
\* the slots of set, open or free, whose fields hold the pair (torrent_id, i)
Carrying(set, torrent_id, i) ==
  {k \in DOMAIN set : set[k].torrent_id = torrent_id /\ set[k].file_index = i}

\* C21: the slot that peek_cached, peek_mtime, close_member or the cache-hit
\* test of a checkout matches is open and carries the identity asked for;
\* when no open slot carries it, free slots that still hold the pair (the
\* initial ones for (0,0) among them) are not matched: peek_cached returns
\* no descriptor, peek_mtime fails without an OS call, close_member changes
\* nothing and the checkout opens the file; a slot that a call leaves free
\* keeps the torrent_id and file_index it had
FreeSlotNeverMatches ==
  [][LET set == get_fileset
         mine == Carrying(set, last'.torrent_id, last'.file_index)
         lookups == {"peek_cached", "peek_mtime", "close_member"}
     IN /\ (last'.op \in lookups /\ last'.slot # 0) =>
             last'.slot \in mine \cap OpenSlots(set)
        /\ (last'.op = "checkout" /\ ~last'.opened) =>
             last'.slot \in mine \cap OpenSlots(set)
        /\ (last'.op = "peek_cached" /\ last'.ret # TR_BAD_SYS_FILE) =>
             last'.ret \in {set[k].fd : k \in mine \cap OpenSlots(set)}
        /\ (last'.op \in lookups \cup {"checkout"} /\ mine \cap OpenSlots(set) = {}) =>
             /\ last'.op = "peek_cached" =>
                  last'.ret = TR_BAD_SYS_FILE /\ fileset' = set
             /\ last'.op = "peek_mtime" => ~last'.success /\ last'.calls = << >>
             /\ last'.op = "close_member" =>
                  last'.calls = << >> /\ fileset' = set /\ sys' = sys
             /\ last'.op = "checkout" => last'.opened
        /\ fdInfo' =>
             \A k \in DOMAIN set :
               ~cached_file_is_open(fileset'[k]) =>
                 /\ fileset'[k].torrent_id = set[k].torrent_id
                 /\ fileset'[k].file_index = set[k].file_index]_vars

\* a peek_cached has just found nothing for an identity that a slot freed
\* after use still holds, and for the pair (0,0) of a slot never used
FreeSlotWitness ==
  /\ last.op = "peek_cached" /\ last.ret = TR_BAD_SYS_FILE
  /\ \E k \in Carrying(fileset, last.torrent_id, last.file_index) :
       ~cached_file_is_open(fileset[k]) /\ fileset[k].used_at > 0
  /\ \E k \in DOMAIN fileset : fileset[k] = TR_CACHED_FILE_INIT

\* C22: a successful checkout sets the used_at of its slot to the current
\* time, together with torrent_id and file_index, and a peek_cached that
\* returns a descriptor sets the used_at of the slot it belongs to; nothing
\* else changes a used_at: every other slot in these two calls, and every
\* slot in a peek_mtime, a peek_cached that returns nothing, a close_member,
\* a close_owner, a failed checkout (evicting or not) and a clock tick,
\* keeps the used_at it had
UsedAtUpdateRule ==
  [][fdInfo' =>
       LET set == get_fileset
           o == last'.slot
           same(S) == \A k \in S : fileset'[k].used_at = set[k].used_at
       IN IF last'.op = "checkout" /\ last'.success
            THEN /\ fileset'[o].used_at = now
                 /\ fileset'[o].torrent_id = last'.torrent_id
                 /\ fileset'[o].file_index = last'.file_index
                 /\ fileset'[o].fd = last'.ret
                 /\ same(DOMAIN set \ {o})
            ELSE IF last'.op = "peek_cached" /\ last'.ret # TR_BAD_SYS_FILE
              THEN /\ fileset'[o].used_at = now
                   /\ set[o].fd = last'.ret
                   /\ same(DOMAIN set \ {o})
              ELSE same(DOMAIN set)]_vars

\* a peek_mtime has just read a slot last used at an earlier clock value,
\* while another slot, left by a checkout that failed, is free
UsedAtWitness ==
  /\ last.op = "peek_mtime" /\ last.success
  /\ fileset[last.slot].used_at < now
  /\ \E k \in DOMAIN fileset : ~cached_file_is_open(fileset[k])

(* ---- properties of the limit on open files ---- *)
\* the step builds the session structure
ConstructStep == ~fdInfo /\ fdInfo'

\* C23 as claimed: building the structure changes the soft limit only when
\* min(hard limit, FD_SETSIZE) is greater than it, and never lowers it
LimitOnlyRaised ==
  [][ConstructStep =>
       /\ rlimit'.rlim_cur # rlimit.rlim_cur =>
            Min({rlimit.rlim_max, platform.FD_SETSIZE}) > rlimit.rlim_cur
       /\ rlimit'.rlim_cur >= rlimit.rlim_cur]_vars

\* C23 amended: building the structure leaves the hard limit and changes the
\* soft limit only when min(hard limit, FD_SETSIZE) differs from it, and then
\* to that value, which it does whenever getrlimit and setrlimit succeed and
\* the soft limit is within the range of int; a soft limit that is not above
\* FD_SETSIZE is never lowered; no other call changes the limit
LimitNegotiation ==
  [][IF ConstructStep
       THEN LET target == Min({rlimit.rlim_max, platform.FD_SETSIZE})
                cur == rlimit.rlim_cur
            IN /\ rlimit'.rlim_max = rlimit.rlim_max
               /\ rlimit'.rlim_cur \in {cur, target}
               /\ (/\ platform.getrlimit_ok /\ platform.setrlimit_ok
                   /\ cur < Pow2(IntBits - 1)) => rlimit'.rlim_cur = target
               /\ cur <= platform.FD_SETSIZE => rlimit'.rlim_cur >= cur
               /\ limit_before' = cur
       ELSE rlimit' = rlimit]_vars

\* the structure has just been built and the soft limit, which was above
\* FD_SETSIZE, is lower than it was
LimitWitness ==
  /\ fdInfo
  /\ last.op = "peek_cached"
  /\ limit_before > platform.FD_SETSIZE
  /\ rlimit.rlim_cur < limit_before
  /\ rlimit.rlim_cur = platform.FD_SETSIZE

(* ---- properties of the preallocations ---- *)
\* C24: preallocate_file_sparse with length 0 reports success and makes no
\* call; with length > 0 it asks for the native preallocation and, when that
\* fails, seeks to length - 1, writes one byte and truncates to length, in
\* this order, each only after the one before has succeeded and none left
\* out after a success; it reports success exactly when all three have
\* succeeded, and the file is then of the length asked for
SparsePreallocation ==
  last.op = "preallocate_file_sparse" =>
    LET c == last.calls
        length == last.file_size
    IN /\ \A n \in DOMAIN c : c[n].fd = last.fd
       /\ length = 0 => (last.success /\ c = << >> /\ last.size = last.info_size)
       /\ length > 0 =>
            /\ Len(c) >= 1 /\ c[1].call = "preallocate" /\ c[1].len = length
            /\ c[1].ok => (Len(c) = 1 /\ last.success)
            /\ ~c[1].ok =>
                 /\ Len(c) \in 2..4
                 /\ c[2].call = "seek" /\ c[2].len = length - 1
                 /\ Len(c) >= 3 => (c[3].call = "write" /\ c[3].len = 1)
                 /\ Len(c) >= 4 => (c[4].call = "truncate" /\ c[4].len = length)
                 /\ \A n \in 2..(Len(c) - 1) : c[n].ok
                 /\ Len(c) < 4 => ~c[Len(c)].ok
                 /\ last.success <=> (Len(c) = 4 /\ c[4].ok)
                 /\ last.success => last.size = length

\* the fallback has just succeeded on a file that was longer than asked,
\* with a length of more than one buffer
SparseWitness ==
  /\ last.op = "preallocate_file_sparse" /\ last.success
  /\ Len(last.calls) = 4
  /\ last.file_size > BufSize
  /\ last.info_size > last.file_size

\* the bytes written by the first n calls of c
RECURSIVE Written(_, _)
Written(c, n) == IF n = 0 THEN 0 ELSE Written(c, n - 1) + c[n].done

\* C25: preallocate_file_full closes the descriptor it has opened, as its
\* last call, whatever happens in between.  When the native allocation
\* fails, the calls in between are writes, each of min(what remains, 4096)
\* bytes with at least one byte remaining, every one but the last complete;
\* the result is success exactly when every write is complete, and then
\* length bytes have been written
FullPreallocation ==
  last.op = "preallocate_file_full" =>
    LET c == last.calls
        length == last.file_size
        writes == 3..(Len(c) - 1)
        remaining(n) == length - Written(c, n - 1)
        complete(n) == c[n].ok /\ c[n].done = c[n].len
    IN /\ Len(c) >= 1 /\ c[1].call = "open" /\ c[1].write
       /\ ~c[1].ok => (Len(c) = 1 /\ ~last.success)
       /\ c[1].ok =>
            /\ Len(c) >= 3
            /\ c[2].call = "preallocate" /\ c[2].len = length
            /\ c[Len(c)].call = "close"
            /\ \A n \in DOMAIN c :
                 /\ n > 1 => c[n].fd = c[1].fd
                 /\ c[n].call = "close" => n = Len(c)
            /\ c[2].ok => (Len(c) = 3 /\ last.success)
            /\ ~c[2].ok =>
                 /\ \A n \in writes :
                      /\ c[n].call = "write"
                      /\ remaining(n) > 0
                      /\ c[n].len = Min({remaining(n), BufSize})
                      /\ n < Len(c) - 1 => complete(n)
                 /\ last.success <=> \A n \in writes : complete(n)
                 /\ last.success => Written(c, Len(c)) = length

\* the loop has just stopped at a short write, the third of the three that
\* the length asks for
FullWitness ==
  /\ last.op = "preallocate_file_full" /\ ~last.success
  /\ last.file_size > 2 * BufSize
  /\ Len(last.calls) = 6
  /\ last.calls[5].ok /\ last.calls[5].done < last.calls[5].len
  /\ last.calls[6].call = "close"

(* ---- properties of close_member and of failed checkouts ---- *)
\* C26: a close_member that closes a slot recorded writable makes two
\* calls, the flush of the slot's descriptor and then its close; one that
\* closes a slot recorded read-only makes the close alone; the slot is free
\* and its descriptor closed on return; a close_member that closes no slot
\* makes no call, which is the case only when no open slot carries the
\* identity
FlushBeforeClose ==
  [][last'.op = "close_member" =>
       LET set == get_fileset
           c == last'.calls
           closed == {k \in OpenSlots(set) : ~cached_file_is_open(fileset'[k])}
           mine == Carrying(set, last'.torrent_id, last'.file_index) \cap OpenSlots(set)
       IN /\ closed \subseteq mine
          /\ (mine # {}) <=> (closed # {})
          /\ closed = {} => c = << >>
          /\ \A k \in closed :
               /\ IF set[k].is_writable
                    THEN /\ Len(c) = 2
                         /\ c[1].call = "flush" /\ c[1].fd = set[k].fd
                         /\ c[2].call = "close" /\ c[2].fd = set[k].fd
                    ELSE /\ Len(c) = 1
                         /\ c[1].call = "close" /\ c[1].fd = set[k].fd
               /\ set[k].fd \notin sys'.open]_vars

\* a close_member has just flushed and closed a writable slot while the
\* other slot stays open
FlushWitness ==
  /\ last.op = "close_member"
  /\ Len(last.calls) = 2 /\ last.calls[1].call = "flush"
  /\ ~cached_file_is_open(fileset[last.slot])
  /\ OpenSlots(fileset) # {}

\* C27: a checkout that returns failure leaves the open slots as they were:
\* the same slots are open, each with the torrent_id, file_index, descriptor,
\* is_writable and used_at it had, and the same descriptors are open in the OS
FailedCheckoutUnchanged ==
  [][(last'.op = "checkout" /\ ~last'.success) =>
       LET set == get_fileset
       IN /\ OpenSlots(fileset') = OpenSlots(set)
          /\ \A k \in OpenSlots(set) : fileset'[k] = set[k]
          /\ sys' = sys]_vars

\* C28: an open slot is recorded writable exactly when its descriptor was
\* opened with write access
RecordedWritabilityMatches ==
  \A k \in OpenSlots(fileset) : fileset[k].is_writable <=> (fileset[k].fd \in sys.write)

====
